---- MODULE Spec2Model ----
(***************************************************************************)
(* Heightmap renderer (Heightmap::pixels / recurse / Render) over a        *)
(* sampled implicit field.  The recursion of recurse() is unfolded into a  *)
(* continuation list `work`; pixels() is unfolded into one step per        *)
(* iteration of REGION_ITERATE_XYZ.                                        *)
(***************************************************************************)
EXTENDS Integers, Sequences, FiniteSets, TLC

\* ---------------------------------------------------------------- bounds
\* largest number of voxels of the region handed to Render
MaxVoxels == 6
\* largest voxel count of the region along X, Y and Z
MaxX == 2
MaxY == 2
MaxZ == 3
\* largest Result::count<double>() of the builds considered (256 in the
\* shipped build); the builds considered have 2 .. MaxCount lanes
MaxCount == 4
\* Result::count<Gradient>(): lanes of one gradient batch (256 in the build)
NUM_POINTS == 2

\* ------------------------------------------------------------- constants
\* -std::numeric_limits<double>::infinity(), below every Z coordinate
NegInf == -1

\* field values: negative inside, zero on the surface, positive outside
Values == {-1, 1}

\* bounds an interval evaluation can return
BoundValues == {-1, 0, 1}

\* ---------------------------------------------------------------- Region
Axis(min, size) == [min |-> min, size |-> size]

Region(X, Y, Z) == [X |-> X, Y |-> Y, Z |-> Z]

\* DiscreteRange::pos(i): coordinate of the i-th voxel of the axis
pos(a, i) == a.min + i

voxels(r) == r.X.size * r.Y.size * r.Z.size

canSplit(r) == r.X.size > 1 \/ r.Y.size > 1 \/ r.Z.size > 1

\* DiscreteRange::split(): lower half first, upper half second
AxisSplit(a) ==
    LET half == a.size \div 2
    IN  << Axis(a.min, half), Axis(a.min + half, a.size - half) >>

\* Region::split(): along the largest axis, ties X before Y before Z
split(r) ==
    IF r.Z.size > r.Y.size /\ r.Z.size > r.X.size
    THEN LET rz == AxisSplit(r.Z)
         IN  << Region(r.X, r.Y, rz[1]), Region(r.X, r.Y, rz[2]) >>
    ELSE IF r.Y.size > r.X.size
    THEN LET ry == AxisSplit(r.Y)
         IN  << Region(r.X, ry[1], r.Z), Region(r.X, ry[2], r.Z) >>
    ELSE LET rx == AxisSplit(r.X)
         IN  << Region(rx[1], r.Y, r.Z), Region(rx[2], r.Y, r.Z) >>

\* r.Z.pos(r.Z.size - 1): the highest Z coordinate of the region
ZTop(r) == pos(r.Z, r.Z.size - 1)

\* voxel coordinates <<x, y, z>> covered by a region
VoxelsOf(r) ==
    { <<pos(r.X, a), pos(r.Y, b), pos(r.Z, c)>> :
        a \in 0 .. r.X.size - 1, b \in 0 .. r.Y.size - 1, c \in 0 .. r.Z.size - 1 }

\* depth.block(r.Y.min, r.X.min, r.Y.size, r.X.size): pixels <<row, col>>
Block(r) ==
    { <<r.Y.min + b, r.X.min + a>> :
        b \in 0 .. r.Y.size - 1, a \in 0 .. r.X.size - 1 }

\* regions Render can be called with: origin at voxel 0 on every axis
RootRegions ==
    { Region(Axis(0, sx), Axis(0, sy), Axis(0, sz)) :
        sx \in 1 .. MaxX, sy \in 1 .. MaxY, sz \in 1 .. MaxZ }

Roots == { r \in RootRegions : voxels(r) <= MaxVoxels }

\* -------------------------------------------------------------- Interval
\* an Interval as returned by Tree::eval(X, Y, Z); nan marks NaN bounds
Interval(lo, hi, nan) == [lower |-> lo, upper |-> hi, nan |-> nan]

\* out.upper() < 0  (false when the bound is NaN)
UpperNegative(iv) == ~iv.nan /\ iv.upper < 0

\* a lower bound of exactly 0 counts as strictly positive
LowerNegative(iv) == ~iv.nan /\ iv.lower < 0

\* out.lower() <= 0  (false when the bound is NaN)
LowerNotPositive(iv) == ~iv.nan /\ iv.lower =< 0

ValidIntervals ==
    { Interval(lo, hi, FALSE) : lo \in BoundValues, hi \in BoundValues }

\* NaN bounds, or lower > upper
Invalid(iv) == iv.nan \/ iv.lower > iv.upper

\* what a misbehaving oracle can hand back
InvalidIntervals ==
    { Interval(0, 0, TRUE) } \cup { iv \in ValidIntervals : Invalid(iv) }

\* sound results of the interval evaluation of region r on field f
SoundIntervals(f, r) ==
    { iv \in ValidIntervals :
        /\ iv.lower =< iv.upper
        /\ \A v \in VoxelsOf(r) : iv.lower =< f[v] /\ f[v] =< iv.upper }

\* ------------------------------------------------- 32-bit words, packing
\* a uint32_t as its four bytes, most significant first
Word32(n) ==
    << (n \div 16777216) % 256, (n \div 65536) % 256, (n \div 256) % 256, n % 256 >>

RECURSIVE BitOr(_, _)
BitOr(a, b) ==
    IF a = 0 THEN b
    ELSE IF b = 0 THEN a
    ELSE (IF a % 2 = 1 \/ b % 2 = 1 THEN 1 ELSE 0) + 2 * BitOr(a \div 2, b \div 2)

WordOr(v, w) == [n \in 1 .. 4 |-> BitOr(v[n], w[n])]

\* w << (8 * bytes) on 32 bits
WordShl(w, bytes) == [n \in 1 .. 4 |-> IF n + bytes =< 4 THEN w[n + bytes] ELSE 0]

\* norm.fill(0)
NoNormal == Word32(0)

\* 0xffff7f7f
ClipNormal == << 255, 255, 127, 127 >>

\* what a build can produce when it converts NaN to uint32_t
\* (0, or the x86 "integer indefinite" 0x80000000)
NaNConversions == { << 0, 0, 0, 0 >>, << 128, 0, 0, 0 >> }

\* integer square root of a perfect square
Sqrt(n) == CHOOSE s \in 0 .. n : s * s = n

\* sqrt(pow(dx, 2) + pow(dy, 2) + pow(dz, 2))
Length(g) == Sqrt(g[1] * g[1] + g[2] * g[2] + g[3] * g[3])

\* the conversion rounds to the nearest integer
ChannelRounded(comp, len, ub) ==
    IF len = 0 THEN ub
    ELSE Word32((255 * (comp + len) + len) \div (2 * len))

\* uint32_t c = 255 * (comp / (2 * len) + 0.5): the conversion truncates;
\* len = 0 makes the operand NaN and the conversion yields ub
Channel(comp, len, ub) ==
    IF len = 0 THEN ub
    ELSE Word32((255 * (comp + len)) \div (2 * len))

\* the x and z channels change places: alpha|x|y|z
PackXYZ(g, ub) ==
    LET len == Length(g)
        dx  == Channel(g[1], len, ub)
        dy  == Channel(g[2], len, ub)
        dz  == Channel(g[3], len, ub)
    IN  WordOr(WordOr(WordShl(Word32(255), 3), WordShl(dx, 2)),
               WordOr(WordShl(dy, 1), dz))

\* (0xff << 24) | (dz << 16) | (dy << 8) | dx
Pack(g, ub) ==
    LET len == Length(g)
        dx  == Channel(g[1], len, ub)
        dy  == Channel(g[2], len, ub)
        dz  == Channel(g[3], len, ub)
    IN  WordOr(WordOr(WordShl(Word32(255), 3), WordShl(dz, 2)),
               WordOr(WordShl(dy, 1), dx))

\* --------------------------------------------------------------- Evaluator
\* gradient fields of the rendered shapes: the gradient at a point is one
\* of two vectors, alternating from voxel to voxel
GradientFields ==
    { << <<0, 0, 1>>, <<1, 0, 0>> >>,
      << <<0, 0, -1>>, <<0, 0, 0>> >>,
      << <<0, -2, 0>>, <<0, 0, 1>> >> }

\* evalCore<Gradient>: derivative of the field at point pt
GradAt(g, pt) == g[((pt[1] + pt[2] + pt[3]) % 2) + 1]

\* Tree::eval(Region): values flattened x-major, z innermost and descending
EvalRegion(f, r) ==
    [ n \in 1 .. voxels(r) |->
        LET m  == n - 1
            kk == m % r.Z.size
            jj == (m \div r.Z.size) % r.Y.size
            ii == m \div (r.Z.size * r.Y.size)
        IN  f[<<pos(r.X, ii), pos(r.Y, jj), pos(r.Z, r.Z.size - kk - 1)>>] ]

\* ------------------------------------------------------------------ state
VARIABLES
    root,         \* Region r handed to Render
    field,        \* value of the implicit field at every voxel of root
    grad,         \* gradient field of the shape
    clip,         \* Render's clip argument
    count,        \* Result::count<double>() of the build
    abort,        \* the cancellation flag
    depth,        \* DepthImage, indexed <<row, column>>
    norm,         \* NormalImage, indexed <<row, column>>
    work,         \* pending recurse() calls and pop()s, innermost first
    stack,        \* the evaluator's activation stack (regions pushed)
    pc,           \* "recurse", "body", "pixels", "done" or "failed"
    interval,     \* recurse: Interval out of the last interval evaluation
    out,          \* pixels: const double* out
    index,        \* pixels: int index
    i, j, k,      \* pixels: loop counters of REGION_ITERATE_XYZ
    norm_count,   \* pixels: size_t norm_count
    xs, ys,       \* pixels: size_t xs[NUM_POINTS], ys[NUM_POINTS]
    points,       \* evaluator: points set by setPoint<Gradient>, per lane
    depthBefore,  \* history: the depth image when the running pixels() began
    normPt        \* history: per pixel, the point its normal was computed at

vars == << root, field, grad, clip, count, abort, depth, norm, work, stack, pc,
           interval, out, index, i, j, k, norm_count, xs, ys, points,
           depthBefore, normPt >>

\* the arguments of Render and the build, fixed during the call
inputs == << root, field, grad, clip, count >>

pixelVars == << out, index, i, j, k, norm_count, xs, ys, points, depthBefore >>

Lanes == 0 .. NUM_POINTS - 1

NoLanes == [n \in Lanes |-> 0]

NoPoints == [n \in Lanes |-> <<0, 0, 0>>]

Call(r) == [op |-> "recurse", r |-> r]

PopOf(r) == [op |-> "pop", r |-> r]

\* the region of the recurse() call that is running or about to start
Cur == Head(work).r

\* Render, lines 195-199: fresh images, then the call recurse(t, r, ...)
Init ==
    /\ root \in Roots
    /\ field \in [VoxelsOf(root) -> Values]
    /\ grad \in GradientFields
    /\ clip \in BOOLEAN
    /\ count \in 2 .. MaxCount
    /\ abort = FALSE
    /\ depth = [p \in Block(root) |-> NegInf]
    /\ norm = [p \in Block(root) |-> NoNormal]
    /\ work = << Call(root) >>
    /\ stack = << >>
    /\ pc = "recurse"
    /\ interval = Interval(0, 0, FALSE)
    /\ out = << >>
    /\ index = 0
    /\ i = 0 /\ j = 0 /\ k = 0
    /\ norm_count = 0
    /\ xs = NoLanes /\ ys = NoLanes
    /\ points = NoPoints
    /\ depthBefore = depth
    /\ normPt = [p \in Block(root) |-> << >>]

\* another thread sets the cancellation flag
SetAbort ==
    /\ pc \notin {"done", "failed"}
    /\ ~abort
    /\ abort' = TRUE
    /\ UNCHANGED << inputs, depth, norm, work, stack, pc,
                    interval, normPt >>
    /\ UNCHANGED pixelVars

\* recurse: abort.load() is true, return
RecurseCancelled ==
    /\ pc = "recurse" /\ work # << >> /\ Head(work).op = "recurse"
    /\ abort
    /\ work' = Tail(work)
    /\ UNCHANGED << inputs, abort, depth, norm, stack, pc,
                    interval, normPt >>
    /\ UNCHANGED pixelVars

\* the flag is not looked at on entry
RecurseEnterAlways ==
    /\ pc = "recurse" /\ work # << >> /\ Head(work).op = "recurse"
    /\ pc' = "body"
    /\ UNCHANGED << inputs, abort, depth, norm, work, stack,
                    interval, normPt >>
    /\ UNCHANGED pixelVars

\* recurse: abort.load() is false, go on
RecurseEnter ==
    /\ pc = "recurse" /\ work # << >> /\ Head(work).op = "recurse"
    /\ ~abort
    /\ pc' = "body"
    /\ UNCHANGED << inputs, abort, depth, norm, work, stack,
                    interval, normPt >>
    /\ UNCHANGED pixelVars

\* the occlusion test is left out
AllOccludedNever(d, r) == FALSE

\* a block counts as occluded as soon as one of its pixels is
AllOccludedAny(d, r) == \E p \in Block(r) : d[p] >= ZTop(r)

\* (block >= r.Z.pos(r.Z.size - 1)).all()
AllOccluded(d, r) == \A p \in Block(r) : d[p] >= ZTop(r)

\* recurse: every pixel of the block is at or above the region, return
RecurseOccluded ==
    /\ pc = "body"
    /\ AllOccluded(depth, Cur)
    /\ work' = Tail(work)
    /\ pc' = "recurse"
    /\ UNCHANGED << inputs, abort, depth, norm, stack,
                    interval, normPt >>
    /\ UNCHANGED pixelVars

\* the leaf threshold is zero lanes
IsLeafNoLanes(r) == voxels(r) =< 0

\* r.voxels() <= Result::count<double>()
IsLeaf(r) == voxels(r) =< count

\* recurse: small region, call pixels(); pixels: t->eval(r), index = 0
RecurseLeaf ==
    /\ pc = "body"
    /\ ~AllOccluded(depth, Cur)
    /\ IsLeaf(Cur)
    /\ out' = EvalRegion(field, Cur)
    /\ index' = 0
    /\ i' = 0 /\ j' = 0 /\ k' = 0
    /\ norm_count' = 0
    /\ depthBefore' = depth
    /\ pc' = "pixels"
    /\ UNCHANGED << inputs, abort, depth, norm, work, stack,
                    interval, xs, ys, points, normPt >>

\* the lanes of a batch of cnt points that write pixel p
LanesOf(p, cnt, xa, ya) == { n \in 0 .. cnt - 1 : <<ya[n], xa[n]>> = p }

LastLane(S) == CHOOSE n \in S : \A m \in S : m =< n

\* the run lambda: evaluate cnt gradients, pack them, norm(ys[i], xs[i]) = ...
RunNorm(nm, cnt, xa, ya, pts, ub) ==
    [ p \in DOMAIN nm |->
        IF LanesOf(p, cnt, xa, ya) = {} THEN nm[p]
        ELSE Pack(GradAt(grad, pts[LastLane(LanesOf(p, cnt, xa, ya))]), ub) ]

\* history of the run lambda: the point each written normal was computed at
RunPt(np, cnt, xa, ya, pts) ==
    [ p \in DOMAIN np |->
        IF LanesOf(p, cnt, xa, ya) = {} THEN np[p]
        ELSE pts[LastLane(LanesOf(p, cnt, xa, ya))] ]

\* the point staged with setPoint<Gradient> for the voxel tested at (a, b, c)
StagedPoint(r, a, b, c) == << pos(r.X, a), pos(r.Y, b), pos(r.Z, c) >>

\* REGION_ITERATE_XYZ: the iteration after `break` out of the z loop
NextColumn(r, a, b) ==
    IF b + 1 < r.Y.size THEN << a, b + 1, 0 >> ELSE << a + 1, 0, 0 >>

\* REGION_ITERATE_XYZ: the iteration after a completed loop body
NextVoxel(r, a, b, c) ==
    IF c + 1 < r.Z.size THEN << a, b, c + 1 >> ELSE NextColumn(r, a, b)
\* the image is indexed without the region's offsets
PixelNoOffset(r, a, b) == << b, a >>

\* (r.Y.min + j, r.X.min + i): row and column of the pixel of column (a, b)
Pixel(r, a, b) == << r.Y.min + b, r.X.min + a >>

\* a filled voxel is written without looking at the image's depth
HitUnchecked(r, d, o, idx, a, b, c) == o[idx + 1] < 0

\* out[index++] < 0, then depth(r.Y.min + j, r.X.min + i) < z
Hit(r, d, o, idx, a, b, c) ==
    /\ o[idx + 1] < 0
    /\ d[Pixel(r, a, b)] < pos(r.Z, r.Z.size - c - 1)

\* the rest of the column is not skipped in the results
IndexAfterBreakNoSkip(r, idx, c) == idx

\* index += r.Z.size - k - 1, applied to the already incremented index
IndexAfterBreak(r, idx, c) == idx + (r.Z.size - c - 1)

\* the batch is run one point too late
FullLate(nc) == nc > NUM_POINTS

\* norm_count == NUM_POINTS
Full(nc) == nc = NUM_POINTS

\* pixels: one iteration of the loop body, lines 94-126
PixelsStep ==
    /\ pc = "pixels"
    /\ i < Cur.X.size
    /\ LET r    == Cur
           z    == pos(r.Z, r.Z.size - k - 1)
           px   == Pixel(r, i, j)
           hit  == Hit(r, depth, out, index, i, j, k)
           nxt  == IF hit THEN NextColumn(r, i, j) ELSE NextVoxel(r, i, j, k)
           xs1  == [xs EXCEPT ![norm_count] = r.X.min + i]
           ys1  == [ys EXCEPT ![norm_count] = r.Y.min + j]
           pts1 == [points EXCEPT ![norm_count] = StagedPoint(r, i, j, k)]
           full == Full(norm_count + 1)
       IN  /\ i' = nxt[1] /\ j' = nxt[2] /\ k' = nxt[3]
           /\ IF hit
              THEN /\ depth' = [depth EXCEPT ![px] = z]
                   /\ index' = IndexAfterBreak(r, index + 1, k)
                   /\ xs' = xs1 /\ ys' = ys1 /\ points' = pts1
                   /\ norm_count' = IF full THEN 0 ELSE norm_count + 1
                   /\ \E ub \in NaNConversions :
                        norm' = IF full
                                THEN RunNorm(norm, norm_count + 1, xs1, ys1, pts1, ub)
                                ELSE norm
                   /\ normPt' = IF full
                                THEN RunPt(normPt, norm_count + 1, xs1, ys1, pts1)
                                ELSE normPt
              ELSE /\ index' = index + 1
                   /\ UNCHANGED << depth, norm, norm_count, xs, ys, points, normPt >>
    /\ UNCHANGED << inputs, abort, work, stack, pc, interval,
                    out, depthBefore >>

\* pixels: the loop is over; render the last normals, lines 129-132, return
PixelsReturn ==
    /\ pc = "pixels"
    /\ i >= Cur.X.size
    /\ \E ub \in NaNConversions :
         norm' = IF norm_count > 0
                 THEN RunNorm(norm, norm_count, xs, ys, points, ub)
                 ELSE norm
    /\ normPt' = IF norm_count > 0
                 THEN RunPt(normPt, norm_count, xs, ys, points)
                 ELSE normPt
    /\ norm_count' = 0
    /\ out' = << >>
    /\ index' = 0
    /\ i' = 0 /\ j' = 0 /\ k' = 0
    /\ xs' = NoLanes /\ ys' = NoLanes
    /\ points' = NoPoints
    /\ depthBefore' = depth
    /\ work' = Tail(work)
    /\ pc' = "recurse"
    /\ UNCHANGED << inputs, abort, depth, stack, interval >>

\* the block is raised to the lowest Z of the region, not the highest
FillBlockBottom(d, r) ==
    [ p \in DOMAIN d |->
        IF p \in Block(r) /\ d[p] < pos(r.Z, 0) THEN pos(r.Z, 0) ELSE d[p] ]

\* block = block.max(r.Z.pos(r.Z.size - 1))
FillBlock(d, r) ==
    [ p \in DOMAIN d |->
        IF p \in Block(r) /\ d[p] < ZTop(r) THEN ZTop(r) ELSE d[p] ]

\* t->push(): a new level on the activation stack, for region r
push(st, r) == << r >> \o st

\* t->pop(): drop the innermost level
pop(st) == SubSeq(st, 2, Len(st))

\* the lower half is visited first
SubdivideLowFirst(r, rest) ==
    << Call(split(r)[1]), Call(split(r)[2]), PopOf(r) >> \o rest

\* the second call is made on r instead of rs.first
SubdivideSelf(r, rest) ==
    << Call(split(r)[2]), Call(r), PopOf(r) >> \o rest

\* recurse(rs.second), recurse(rs.first), t->pop(), then the caller's rest
Subdivide(r, rest) ==
    << Call(split(r)[2]), Call(split(r)[1]), PopOf(r) >> \o rest

\* the ambiguous branch subdivides without t->push()
BranchNoPush(iv) ==
    IF UpperNegative(iv)
    THEN /\ depth' = FillBlock(depth, Cur)
         /\ work' = Tail(work)
         /\ stack' = stack
         /\ pc' = "recurse"
    ELSE IF LowerNotPositive(iv)
    THEN /\ stack' = stack
         /\ depth' = depth
         /\ IF canSplit(Cur)
            THEN work' = Subdivide(Cur, Tail(work)) /\ pc' = "recurse"
            ELSE work' = work /\ pc' = "failed"
    ELSE /\ work' = Tail(work)
         /\ pc' = "recurse"
         /\ UNCHANGED << depth, stack >>

\* recurse: the three outcomes of the interval evaluation, lines 166-189;
\* a failing assert(r.canSplit()) ends the program in "failed"
Branch(iv) ==
    IF UpperNegative(iv)
    THEN /\ depth' = FillBlock(depth, Cur)
         /\ work' = Tail(work)
         /\ stack' = stack
         /\ pc' = "recurse"
    ELSE IF LowerNotPositive(iv)
    THEN /\ stack' = push(stack, Cur)
         /\ depth' = depth
         /\ IF canSplit(Cur)
            THEN work' = Subdivide(Cur, Tail(work)) /\ pc' = "recurse"
            ELSE work' = work /\ pc' = "failed"
    ELSE /\ work' = Tail(work)
         /\ pc' = "recurse"
         /\ UNCHANGED << depth, stack >>

\* recurse: interval evaluation of a large region, lines 163-189; ivs is
\* the set of intervals t->eval(X, Y, Z) may return for the region
RecurseInterior(ivs) ==
    /\ pc = "body"
    /\ ~AllOccluded(depth, Cur)
    /\ ~IsLeaf(Cur)
    /\ \E iv \in ivs :
         /\ interval' = iv
         /\ Branch(iv)
    /\ UNCHANGED << inputs, abort, norm, normPt >>
    /\ UNCHANGED pixelVars

\* recurse: t->pop() after both recursive calls, then return
Pop ==
    /\ pc = "recurse" /\ work # << >> /\ Head(work).op = "pop"
    /\ stack' = pop(stack)
    /\ work' = Tail(work)
    /\ UNCHANGED << inputs, abort, depth, norm, pc, interval,
                    normPt >>
    /\ UNCHANGED pixelVars

\* every resolved pixel is taken for a pixel on the top boundary
ClipSelectResolved(d, nm, r) ==
    [ p \in DOMAIN nm |-> IF d[p] # NegInf THEN ClipNormal ELSE nm[p] ]

\* (depth == r.Z.pos(r.Z.size - 1)).select(0xffff7f7f, norm)
ClipSelect(d, nm, r) ==
    [ p \in DOMAIN nm |-> IF d[p] = ZTop(r) THEN ClipNormal ELSE nm[p] ]

\* Render: recurse has returned; clip post-processing, lines 213-220
RenderReturn ==
    /\ pc = "recurse" /\ work = << >>
    /\ norm' = IF clip THEN ClipSelect(depth, norm, root) ELSE norm
    /\ pc' = "done"
    /\ UNCHANGED << inputs, abort, depth, work, stack,
                    interval, normPt >>
    /\ UNCHANGED pixelVars

\* the steps of the rendering thread other than the interval evaluation
Step ==
    \/ RecurseCancelled
    \/ RecurseEnter
    \/ RecurseOccluded
    \/ RecurseLeaf
    \/ PixelsStep
    \/ PixelsReturn
    \/ Pop
    \/ RenderReturn

\* sound interval evaluation
Next ==
    \/ Step
    \/ RecurseInterior(SoundIntervals(field, Cur))
    \/ SetAbort

Spec == Init /\ [][Next]_vars

\* interval evaluation with an oracle that may misbehave
NextOracle ==
    \/ Step
    \/ RecurseInterior(SoundIntervals(field, Cur) \cup InvalidIntervals)
    \/ SetAbort

SpecOracle == Init /\ [][NextOracle]_vars

\* ------------------------------------------------------------ properties
Max(S) == CHOOSE n \in S : \A m \in S : m =< n

\* Z coordinates of the inside (negative) voxels of the column of pixel p
InsideZ(r, p) ==
    { pos(r.Z, c) : c \in { c \in 0 .. r.Z.size - 1 :
                             field[<< p[2], p[1], pos(r.Z, c) >>] < 0 } }

\* exhaustive evaluation: depth of pixel p over the whole column of region r
ExhaustiveDepth(r, p) == Max(InsideZ(r, p) \cup {NegInf})

\* exhaustive evaluation: the normals pixel p can get, the gradient taken
\* at the highest inside voxel of the column
ExhaustiveNormals(p) ==
    IF ExhaustiveDepth(root, p) = NegInf THEN { NoNormal }
    ELSE IF clip /\ ExhaustiveDepth(root, p) = ZTop(root) THEN { ClipNormal }
    ELSE { Pack(GradAt(grad, << p[2], p[1], ExhaustiveDepth(root, p) >>), ub) :
             ub \in NaNConversions }

Finished == pc = "done" /\ ~abort

\* C1 as stated: after an uncancelled Render both the depth image and the
\* normal image equal the images of an exhaustive per-voxel evaluation.
C1_PruningTransparency ==
    Finished =>
        \A p \in Block(root) :
            /\ depth[p] = ExhaustiveDepth(root, p)
            /\ norm[p] \in ExhaustiveNormals(p)

\* C1 amended: after an uncancelled Render with sound intervals, the depth
\* image equals the depth image of an exhaustive per-voxel evaluation.
C1_DepthTransparency ==
    Finished => \A p \in Block(root) : depth[p] = ExhaustiveDepth(root, p)

\* C1 witness: an uncancelled Render of a region that had to be subdivided
\* ended with a pixel resolved by a leaf below the top of the region and a
\* pixel that stayed empty.
C1_Witness ==
    /\ Finished
    /\ voxels(root) > count
    /\ \E p \in Block(root) :
         normPt[p] # << >> /\ depth[p] # NegInf /\ depth[p] < ZTop(root)
    /\ \E q \in Block(root) : depth[q] = NegInf

\* C2: no step of a Render call lowers the depth of any pixel.
C2_DepthMonotone ==
    [][\A p \in DOMAIN depth : depth'[p] >= depth[p]]_vars

\* C2 witness: a leaf is running on a block of which one pixel already has
\* a depth above the leaf's region and another is still unresolved.
C2_Witness ==
    /\ pc = "pixels"
    /\ \E p \in Block(Cur) : depth[p] > ZTop(Cur)
    /\ \E q \in Block(Cur) : depth[q] = NegInf

IsPop(w) == w.op = "pop"

\* the regions whose pop() is still to come, innermost first
PendingPops ==
    [ n \in 1 .. Len(SelectSeq(work, IsPop)) |-> SelectSeq(work, IsPop)[n].r ]

\* C3: pushes and pops nest: the activation stack always holds exactly the
\* regions whose pop() is still pending, innermost on top; a pop() finds its
\* own push on top of a non-empty stack; the stack is back at its entry depth
\* when Render returns, cancelled or not.
C3_StackDiscipline ==
    /\ stack = PendingPops
    /\ (pc = "recurse" /\ work # << >> /\ IsPop(Head(work)))
          => (stack # << >> /\ Head(stack) = Head(work).r)
    /\ pc = "done" => stack = << >>

\* C3 witness: the flag was set inside two nested subdivisions and the inner
\* pop() is about to run.
C3_Witness ==
    /\ abort
    /\ Len(stack) = 2
    /\ pc = "recurse" /\ work # << >> /\ IsPop(Head(work))

\* a recurse() call is about to start with the flag set
CancelledCall ==
    abort /\ pc = "recurse" /\ work # << >> /\ Head(work).op = "recurse"

\* a call that reads the flag as set returns at once and touches nothing
CancelledCallInert ==
    CancelledCall =>
        /\ work' = Tail(work) /\ pc' = "recurse"
        /\ UNCHANGED << depth, norm, stack, interval, out, points >>

\* pixels that are unresolved now are unresolved, with no normal, afterwards
UnresolvedStay ==
    \A p \in DOMAIN depth :
        depth[p] = NegInf => (depth'[p] = NegInf /\ norm'[p] = NoNormal)

\* C4 as stated: a call that reads the flag as set is inert, and once the flag
\* is set no pixel that is unresolved at that point is resolved any more.
C4_CancellationAsStated ==
    [][CancelledCallInert /\ (abort => UnresolvedStay)]_vars

\* C4 amended: a call that reads the flag as set is inert; once the flag is
\* set and the call that was already past its flag check has returned, every
\* further step returns from one pending call or pop() or from Render itself
\* (so Render returns after as many steps as there are pending entries), and
\* no unresolved pixel is resolved or gets a normal, with or without clip.
C4_Cancellation ==
    [][/\ CancelledCallInert
       /\ (abort /\ pc = "recurse") =>
             /\ \/ pc' = "done"
                \/ pc' = "recurse" /\ work' = Tail(work)
             /\ UnresolvedStay]_vars

\* C4 witness: a cancelled Render with clip returned a partial image, with
\* a pixel left empty that an exhaustive evaluation resolves.
C4_Witness ==
    /\ pc = "done" /\ abort /\ clip
    /\ \E p \in Block(root) :
         depth[p] = NegInf /\ norm[p] = NoNormal
         /\ ExhaustiveDepth(root, p) # NegInf
    /\ \E q \in Block(root) : depth[q] # NegInf

\* the step is recurse()'s interval evaluation of an interior region
InteriorStep ==
    /\ pc = "body" /\ pc' = "recurse"
    /\ ~AllOccluded(depth, Cur)
    /\ voxels(Cur) > count

\* C5: an interior region whose interval evaluation returns NaN bounds or
\* lower > upper is subdivided (push, two recursive calls, pop), never filled
\* and never skipped.
C5_InvalidIsInconclusive ==
    [][(InteriorStep /\ Invalid(interval')) =>
          /\ stack' = push(stack, Cur)
          /\ depth' = depth
          /\ work' = << Call(split(Cur)[2]), Call(split(Cur)[1]), PopOf(Cur) >>
                       \o Tail(work)]_vars

\* the packed normal of a zero vector whose length is clamped to an epsilon
ZeroVectorNormal == << 255, 127, 127, 127 >>

\* C6: the normal written for a surface point whose gradient is (0, 0, 0) is
\* the empty sentinel or the packing of a zero vector with clamped length,
\* never a value derived from NaN.
C6_ZeroGradient ==
    pc # "done" =>
        \A p \in Block(root) :
            (normPt[p] # << >> /\ Length(GradAt(grad, normPt[p])) = 0)
                => norm[p] \in { NoNormal, ZeroVectorNormal }

\* C7: the return step of Render leaves the depth image alone and replaces
\* the normal of exactly the pixels whose depth is the region's maximum Z,
\* and of those only when clip is true.
C7_ClipSemantics ==
    [][(pc # "done" /\ pc' = "done") =>
          /\ depth' = depth
          /\ \A p \in Block(root) :
               norm'[p] = IF clip /\ depth'[p] = ZTop(root)
                          THEN ClipNormal ELSE norm[p]]_vars

\* C7 witness: Render returned with clip, one pixel on the top boundary and
\* one resolved pixel below it that kept its computed normal.
C7_Witness ==
    /\ pc = "done" /\ clip
    /\ \E p \in Block(root) : depth[p] = ZTop(root) /\ norm[p] = ClipNormal
    /\ \E q \in Block(root) :
         /\ depth[q] # NegInf /\ depth[q] < ZTop(root)
         /\ norm[q] \notin { NoNormal, ClipNormal }

\* round(255 * (comp / (2 * len) + 0.5)), to the nearest integer
Rounded(comp, len) == (255 * (comp + len) + len) \div (2 * len)

\* the gradient the normal of pixel p was computed from
GradOf(p) == GradAt(grad, normPt[p])

\* pixel p holds a normal computed from a gradient of non-zero length
HasNormal(p) ==
    pc # "done" /\ normPt[p] # << >> /\ Length(GradOf(p)) # 0

\* C8 as stated: the normal of a non-zero gradient is alpha|z|y|x with alpha =
\* 0xff and every channel round(255 * (component / (2 * length) + 0.5)).
C8_PackingRounds ==
    \A p \in Block(root) :
        HasNormal(p) =>
            norm[p] = << 255,
                         Rounded(GradOf(p)[3], Length(GradOf(p))),
                         Rounded(GradOf(p)[2], Length(GradOf(p))),
                         Rounded(GradOf(p)[1], Length(GradOf(p))) >>

\* the channel of a component of an axis-aligned gradient: 255 * 1.0,
\* 255 * 0.5 = 127.5 cut to 127, 255 * 0.0
AxisChannel(comp) == IF comp > 0 THEN 255 ELSE IF comp = 0 THEN 127 ELSE 0

\* C8 amended: the normal of a non-zero gradient is alpha|z|y|x with alpha =
\* 0xff and every channel 255 * (component / (2 * length) + 0.5) truncated
\* toward zero: 255, 127 and 0 for the components of an axis-aligned gradient.
C8_PackingTruncates ==
    \A p \in Block(root) :
        HasNormal(p) =>
            norm[p] = << 255, AxisChannel(GradOf(p)[3]),
                         AxisChannel(GradOf(p)[2]), AxisChannel(GradOf(p)[1]) >>

\* C8 witness: normals of +Z, -Z and non-unit -Y gradients are in the image.
C8_Witness ==
    /\ pc # "done"
    /\ \E p \in Block(root) : HasNormal(p) /\ GradOf(p) = <<0, -2, 0>>
    /\ \E q \in Block(root) : HasNormal(q) /\ GradOf(q) = <<0, 0, 1>>

\* flat position in Tree::eval(Region)'s result of the voxel at (a, b, c)
Flat(r, a, b, c) == (a * r.Y.size + b) * r.Z.size + c

\* the loop of the running pixels() is over
LoopDone == pc = "pixels" /\ i >= Cur.X.size

\* C9: while pixels() runs, index is the flat position of the voxel tested
\* next (the voxel count once the loop is over), also after a break out of a
\* column; when its loop is over, every pixel of the leaf's footprint has the
\* larger of its depth before the call and the Z of the highest inside voxel
\* of its column in the leaf.
C9_LeafResolution ==
    pc = "pixels" =>
        /\ index = Flat(Cur, i, j, k)
        /\ LoopDone =>
             \A p \in Block(Cur) :
                 depth[p] = Max({ depthBefore[p], ExhaustiveDepth(Cur, p) })

\* C9 witness: the loop of a leaf with two columns of two voxels is over; it
\* broke out of the first column early and resolved the second column at
\* its lower voxel.
C9_Witness ==
    /\ LoopDone
    /\ Cardinality(Block(Cur)) = 2 /\ Cur.Z.size = 2
    /\ \E p \in Block(Cur) :
         depthBefore[p] = NegInf /\ depth[p] = ZTop(Cur)
    /\ \E q \in Block(Cur) :
         depthBefore[q] = NegInf /\ depth[q] = pos(Cur.Z, 0)

\* C10: the point staged for a pixel, and the point a written normal was
\* computed at, is the voxel whose Z was written to that pixel's depth:
\* X of the pixel's column, Y of its row, Z equal to the depth.
C10_StagedPointIsSurfaceVoxel ==
    /\ pc = "pixels" =>
         \A n \in 0 .. norm_count - 1 :
             points[n] = << xs[n], ys[n], depth[<< ys[n], xs[n] >>] >>
    /\ \A p \in Block(root) :
         normPt[p] # << >> => normPt[p] = << p[2], p[1], depth[p] >>

\* C11: a step that adds work is the ambiguous branch of the running call:
\* it pushes in that step, before either recursive call; it queues the two
\* halves of the split with the half of higher Z extent first (strictly above
\* the other when the split is along Z), then the region's pop(), then what
\* was pending before; every other step leaves the pending work alone or
\* returns from its first entry, so the first call has returned before the
\* second starts; a pop() runs only when it is the first pending entry.
C11_FrontToBack ==
    [][/\ Len(work') > Len(work) =>
            /\ pc = "body"
            /\ stack' = << Cur >> \o stack
            /\ work'[1].op = "recurse" /\ work'[2].op = "recurse"
            /\ { work'[1].r, work'[2].r } = { split(Cur)[1], split(Cur)[2] }
            /\ ZTop(work'[1].r) >= ZTop(work'[2].r)
            /\ work'[1].r.Z # work'[2].r.Z
                  => work'[1].r.Z.min > ZTop(work'[2].r)
            /\ work'[3] = PopOf(Cur)
            /\ SubSeq(work', 4, Len(work')) = Tail(work)
       /\ Len(work') =< Len(work) =>
            (work' = work \/ (work # << >> /\ work' = Tail(work)))
       /\ Len(stack') < Len(stack) =>
            /\ pc = "recurse" /\ work # << >>
            /\ IsPop(Head(work)) /\ work' = Tail(work)]_vars

\* C11 witness: the call on the lower half of a Z split is about to start,
\* its pop() next in line, after the upper half has resolved a pixel.
C11_Witness ==
    /\ pc = "recurse" /\ Len(work) >= 2
    /\ work[1].op = "recurse" /\ IsPop(work[2])
    /\ work[1].r = split(work[2].r)[1]
    /\ ZTop(work[1].r) < ZTop(work[2].r)
    /\ \E p \in Block(work[1].r) : depth[p] > ZTop(work[1].r)

\* the step returns from pixels()
PixelsReturns == pc = "pixels" /\ pc' # "pixels"

\* pixel p is the target of one of the points staged and not yet run
Staged(p) == \E n \in 0 .. norm_count - 1 : << ys[n], xs[n] >> = p

\* C12: the number of staged points is below NUM_POINTS whenever a point can
\* be staged (so every staging writes a lane below NUM_POINTS) and is zero
\* outside pixels(); during pixels() every pixel the leaf has updated is
\* staged or has its normal; when pixels() returns, nothing is staged and
\* every pixel the leaf has updated has its normal.
C12_GradientBatching ==
    /\ [](/\ norm_count < NUM_POINTS
          /\ pc # "pixels" => norm_count = 0
          /\ pc = "pixels" =>
               \A p \in Block(Cur) :
                   depth[p] # depthBefore[p] => (Staged(p) \/ normPt[p] # << >>))
    /\ [][PixelsReturns =>
            /\ norm_count' = 0
            /\ \A p \in Block(Cur) :
                 depth[p] # depthBefore[p] =>
                     (norm'[p] # NoNormal /\ normPt'[p] # << >>)]_vars

\* C12 witness: a batch was run inside the loop of a leaf that goes on: the
\* leaf has updated a pixel whose normal is written, and one that is staged.
C12_Witness ==
    /\ pc = "pixels" /\ i < Cur.X.size
    /\ \E p \in Block(Cur) : depth[p] # depthBefore[p] /\ normPt[p] # << >>
    /\ \E q \in Block(Cur) : depth[q] # depthBefore[q] /\ Staged(q)

\* every pixel under region r is at or above the top of r
Occluded(d, r) == \A p \in Block(r) : d[p] >= ZTop(r)

\* the running call is on the upper half of a split along Z, and the call
\* on the lower half is the next pending entry
UpperHalfRuns ==
    /\ Len(work) >= 3
    /\ work[2].op = "recurse" /\ IsPop(work[3])
    /\ split(work[3].r) = << work[2].r, Cur >>
    /\ Cur.Z # work[2].r.Z

\* C13: a call on a region whose pixels are all at or above the region's
\* top returns without changing either image or the activation stack and
\* without any float, interval or gradient evaluation; and when the upper
\* half of a split along Z is filled, the pending lower half is occluded.
C13_OccludedSkip ==
    [][/\ (pc = "body" /\ Occluded(depth, Cur)) =>
            /\ UNCHANGED << depth, norm, stack, interval, out, points, normPt >>
            /\ \/ pc' = "body" /\ work' = work
               \/ pc' = "recurse" /\ work' = Tail(work)
       /\ (pc = "body" /\ depth' # depth /\ UpperHalfRuns) =>
            Occluded(depth', work[2].r)]_vars

\* C13 witness: the call on the lower half of a split along Z is past its
\* flag check and finds every pixel filled to the top of the upper half.
C13_Witness ==
    /\ pc = "body" /\ Len(work) >= 2 /\ IsPop(work[2])
    /\ Cur = split(work[2].r)[1]
    /\ ZTop(Cur) < ZTop(work[2].r)
    /\ UpperNegative(interval)
    /\ \A p \in Block(Cur) :
         depth[p] = ZTop(work[2].r) /\ norm[p] = NoNormal

\* C14: the interval evaluation of an interior region with upper bound < 0
\* raises every pixel of the footprint to the larger of its depth and the
\* region's maximum Z, changes no other pixel and no normal, and returns
\* without push(), split or recursive call.
C14_NegativeFill ==
    [][(InteriorStep /\ ~interval'.nan /\ interval'.upper < 0) =>
          /\ \A p \in DOMAIN depth :
               depth'[p] = IF p \in Block(Cur)
                           THEN Max({ depth[p], ZTop(Cur) })
                           ELSE depth[p]
          /\ norm' = norm /\ normPt' = normPt
          /\ stack' = stack
          /\ work' = Tail(work)]_vars

\* C14 witness: a region has just been filled; its pixels have the depth
\* of its top and no normal.
C14_Witness ==
    /\ pc = "recurse" /\ UpperNegative(interval)
    /\ \E p \in Block(root) :
         depth[p] # NegInf /\ norm[p] = NoNormal /\ normPt[p] = << >>

\* C15: the interval evaluation of an interior region takes exactly one of
\* three ways, decided by the interval: fill if and only if upper < 0,
\* subdivide (push, two calls and a pop queued) if and only if
\* lower <= 0 <= upper, a bound of exactly 0 included, and skip if and only
\* if lower > 0; a skip changes neither image nor the activation stack and
\* queues no call.
C15_SkipAndBoundary ==
    [][InteriorStep =>
          /\ (depth' # depth) <=> (interval'.upper < 0)
          /\ (Len(work') = Len(work) + 2 /\ stack' = << Cur >> \o stack)
                <=> (interval'.lower =< 0 /\ 0 =< interval'.upper)
          /\ (work' = Tail(work) /\ depth' = depth)
                <=> (interval'.lower > 0)
          /\ interval'.lower > 0 =>
                (norm' = norm /\ stack' = stack /\ work' = Tail(work))
          /\ Len(work') > Len(work) => depth' = depth]_vars

\* C15 witness: a region whose interval has lower bound exactly 0 has just
\* been subdivided.
C15_Witness ==
    /\ pc = "recurse" /\ stack # << >> /\ work # << >>
    /\ work[1] = Call(split(Head(stack))[2])
    /\ interval.lower = 0 /\ interval.upper > 0

\* C16: the assertion r.canSplit() never fails: a region that reaches the
\* ambiguous branch has more voxels than the batch width, which is at least
\* 1, and so an axis of more than one voxel; every region a call is pending
\* for has at least one voxel on every axis.
C16_AssertHolds ==
    /\ [](/\ pc # "failed"
          /\ count >= 1
          /\ \A n \in 1 .. Len(work) :
               /\ work[n].r.X.size >= 1
               /\ work[n].r.Y.size >= 1
               /\ work[n].r.Z.size >= 1)
    /\ [][Len(stack') > Len(stack) =>
            /\ voxels(Cur) > count
            /\ canSplit(Cur)
            /\ \E a \in { Cur.X, Cur.Y, Cur.Z } : a.size > 1]_vars

\* C16 witness: the smallest region that is not a leaf, of one voxel more
\* than the batch width, has been subdivided.
C16_Witness ==
    /\ pc = "recurse" /\ stack # << >> /\ work # << >>
    /\ voxels(Head(stack)) = count + 1
    /\ work[1] = Call(split(Head(stack))[2])

\* steps a pending entry can still take: a call on v voxels at most 8v - 4
\* (enter, evaluate, and either the leaf loop or two calls and a pop)
Cost(item) == IF item.op = "recurse" THEN 8 * voxels(item.r) - 4 ELSE 1

RECURSIVE Pending(_)
Pending(w) == IF w = << >> THEN 0 ELSE Cost(Head(w)) + Pending(Tail(w))

\* bound on the steps left until Render returns
Measure ==
    IF pc \in { "done", "failed" } THEN 0
    ELSE 1 + (IF pc = "recurse" THEN Pending(work)
              ELSE IF pc = "body" THEN Pending(work) - 1
              ELSE (voxels(Cur) - index + 1) + Pending(Tail(work)))

\* a step of recurse outside the leaf loop
RecurseStep ==
    \/ RecurseCancelled \/ RecurseEnter \/ RecurseOccluded \/ RecurseLeaf
    \/ RecurseInterior(SoundIntervals(field, Cur)) \/ Pop \/ RenderReturn

\* the leaf loop is over, or its next iteration reads inside the region
\* and inside the result buffer
LoopCanStep ==
    i < Cur.X.size =>
        /\ j < Cur.Y.size /\ k < Cur.Z.size
        /\ index + 1 \in DOMAIN out

\* C17: Render terminates, with or without the cancellation flag being set:
\* until Render has returned the rendering thread always has a step to take
\* (in the leaf loop: the loop is over or its next iteration is defined),
\* every such step lowers a non-negative bound on the steps left, setting
\* the flag happens at most once and leaves the bound alone, and each split
\* yields two non-empty halves with fewer voxels than the parent.
C17_Termination ==
    /\ [](/\ Measure >= 0
          /\ (pc \in { "recurse", "body" } => ENABLED RecurseStep)
          /\ (pc = "pixels" => LoopCanStep)
          /\ pc \in { "recurse", "body", "pixels", "done" }
          /\ (pc = "done" => work = << >>))
    /\ [][/\ abort' = abort => Measure' < Measure
          /\ abort' # abort => (~abort /\ Measure' = Measure)
          /\ Len(work') > Len(work) =>
               \A h \in { work'[1].r, work'[2].r } :
                   voxels(h) >= 1 /\ voxels(h) < voxels(Cur)]_vars

\* C17 witness: Render has returned, uncancelled, from the largest region,
\* which was subdivided and resolved a pixel in a leaf.
C17_Witness ==
    /\ pc = "done" /\ ~abort
    /\ voxels(root) = MaxVoxels
    /\ \E p \in Block(root) : normPt[p] # << >>

\* C18: each pixel's depth is changed at most once, and the normal written
\* for a pixel belongs to the surface point that set the pixel's depth:
\* the point of its column and row at the Z the depth image holds.
C18_WriteOnce ==
    /\ [][\A p \in Block(root) :
            depth'[p] # depth[p] => depth[p] = NegInf]_vars
    /\ [](\A p \in Block(root) :
            (pc # "done" /\ norm[p] # NoNormal) =>
                /\ normPt[p] # << >>
                /\ normPt[p][1] = p[2] /\ normPt[p][2] = p[1]
                /\ normPt[p][3] = depth[p])

\* rows r.Y.min .. r.Y.min + r.Y.size - 1, columns r.X.min .. r.X.min +
\* r.X.size - 1
Footprint(r) ==
    { p \in (r.Y.min .. r.Y.min + r.Y.size - 1)
              \X (r.X.min .. r.X.min + r.X.size - 1) : TRUE }

\* C19: a step of a call on region r changes depth and normal entries only
\* inside r's footprint; the footprint of every pending call lies inside
\* the footprint of every call it was made from and inside the image; the
\* images keep the shape Render gave them.
C19_FootprintFrame ==
    /\ [](/\ DOMAIN depth = Footprint(root) /\ DOMAIN norm = Footprint(root)
          /\ \A n \in 1 .. Len(work) :
               /\ Footprint(work[n].r) \subseteq Footprint(root)
               /\ \A m \in n + 1 .. Len(work) :
                    (work[n].op = "recurse" /\ IsPop(work[m])) =>
                        Footprint(work[n].r) \subseteq Footprint(work[m].r)
          /\ (pc = "pixels" /\ i < Cur.X.size) =>
                 Pixel(Cur, i, j) \in Footprint(Cur))
    /\ [][(pc # "done" /\ pc' # "done") =>
            \A p \in Footprint(root) :
                (depth'[p] # depth[p] \/ norm'[p] # norm[p]) =>
                    (work # << >> /\ p \in Footprint(Cur))]_vars

\* C19 witness: a leaf away from the image's origin has written one of its
\* pixels, and a pixel outside its footprint is still empty.
C19_Witness ==
    /\ pc = "pixels"
    /\ (Cur.X.min > 0 \/ Cur.Y.min > 0)
    /\ \E p \in Footprint(Cur) : depth[p] # depthBefore[p]
    /\ \E q \in Footprint(root) \ Footprint(Cur) : depth[q] = NegInf

\* C20: the packing of the gradient (dx, dy, dz) = (0, 0, 1) is the value
\* 0xffff7f7f that the clip post-processing writes, and every normal
\* computed from that gradient is that value.
C20_ClipConstant ==
    /\ \A ub \in NaNConversions : Pack(<< 0, 0, 1 >>, ub) = ClipNormal
    /\ \A p \in Block(root) :
         (normPt[p] # << >> /\ GradOf(p) = << 0, 0, 1 >>) =>
             norm[p] = ClipNormal

\* C20 witness: after the clip post-processing one pixel, on the top, holds
\* the value from the clip and another, below the top, holds it from the
\* packing of the gradient (0, 0, 1).
C20_Witness ==
    /\ pc = "done" /\ clip
    /\ \E p \in Block(root) :
         depth[p] = ZTop(root) /\ norm[p] = ClipNormal
    /\ \E q \in Block(root) :
         /\ depth[q] < ZTop(root) /\ normPt[q] # << >>
         /\ GradOf(q) = << 0, 0, 1 >> /\ norm[q] = ClipNormal

====
